---- MODULE Spec2Model ----
(***************************************************************************)
(* Orchestration layer of the video upscaler: VideoProcessor.run() and     *)
(* cancel() (core/video_processor.py), FrameExtractor.extract()            *)
(* (core/frame_extractor.py), Upscaler (core/upscaler.py) and              *)
(* VideoAssembler.assemble() (core/video_assembler.py), with the external  *)
(* tools and the filesystem as the environment.                            *)
(*                                                                         *)
(* Three lines of execution are modelled: the worker (the QThread running  *)
(* run(), or the caller of assemble_video()), the caller thread that may   *)
(* call cancel(), and the child process of the stage that is running.      *)
(***************************************************************************)
EXTENDS Integers, Sequences, FiniteSets, TLC

VARIABLES
    job,            \* the job's inputs and the machine it runs on (fixed at Init)
    pc,             \* position of the worker thread
    cancelled,      \* VideoProcessor._cancelled
    current_stage,  \* VideoProcessor._current_stage
    comp,           \* VideoProcessor._extractor / _upscaler / _assembler are set
    stg,            \* per stage object: _cancelled, _process (handle is not None)
    loc,            \* locals of the running stage call: total_frames, last_count, ...
    child,          \* the stage's child process
    spawned,        \* external processes created so far
    ws,             \* the temp workspace: "none", "exists", "removed"
    rmtree,         \* outcome of shutil.rmtree: "not_tried", "ok", "failed"
    inFrames,       \* frame_*.png files in input_frames/ (Extraction's output)
    outFile,        \* size of the output video file, -1 when it does not exist
    exc,            \* the exception being propagated / last raised
    stageLog,       \* stages set by _set_stage, in order
    sample,         \* the last progress notification, numbered
    terminals,      \* processing_complete / processing_error emissions, in order
    cpc,            \* position of the caller thread inside cancel()
    cancels,        \* number of cancel() calls made
    observed,       \* where the worker saw a cancellation flag set
    temp_base       \* _temp_base of this processor (a) and of a second one (b)

vars == <<job, pc, cancelled, current_stage, comp, stg, loc, child, spawned, ws,
          rmtree, inFrames, outFile, exc, stageLog, sample, terminals, cpc,
          cancels, observed, temp_base>>

----------------------------------------------------------------------------
(* Bounds of the model *)

MaxFrames == 3      \* frame files a child writes at most
MaxProbed == 2      \* largest frame count the metadata probe reports
MaxCancels == 1     \* cancel() calls by the caller thread
MaxLateCancels == 1 \* further cancel() calls after the terminal notification
MaxMillis == 2      \* latest millisecond at which a second processor sets up
ManyFrames == 25    \* frames of a folder that takes several estimates to cover

(* Program constants *)

PROVISIONAL_TOTAL == 1000       \* frame_extractor.py:99
ASSEMBLY_STEP == 10             \* video_assembler.py:179
MIN_OUTPUT_SIZE == 1000         \* video_assembler.py:206
VALIDATE_MODELS_PARAMS == 1     \* utils.py:139, validate_models_exist(model_name)
UPSCALE_VALIDATE_ARGS == 2      \* upscaler.py:113, validate_models_exist(name, scale)

VALID_SCALES == {2, 3, 4}

ScaleInputs == -1 .. 5

Min(a, b) == IF a < b THEN a ELSE b

----------------------------------------------------------------------------
(* ProcessingStage *)

LinearStages ==
    <<"VALIDATING", "EXTRACTING", "UPSCALING", "ASSEMBLING", "CLEANUP", "COMPLETE">>

TerminalStages == {"COMPLETE", "ERROR", "CANCELLED"}

Stages == {"IDLE", "VALIDATING", "EXTRACTING", "UPSCALING", "ASSEMBLING",
           "CLEANUP", "COMPLETE", "ERROR", "CANCELLED"}

StageObjects == {"ext", "up", "asm"}

----------------------------------------------------------------------------
(* Exceptions.  An exception is its class, the fixed part of its message   *)
(* and the diagnostic text (the child's captured stderr) appended to it.   *)

NoExc == [type |-> "none", msg |-> "none", detail |-> ""]

Raise(t, m) == [type |-> t, msg |-> m, detail |-> ""]

(* f"... (code {returncode}):\n{self._stderr_output}" *)
RaiseWith(t, m, d) == [type |-> t, msg |-> m, detail |-> d]

(* The input file, as validate_input_video and get_video_info see it. *)
InputKinds == {"ok", "missing", "missing_cancelled_path", "bad_ext", "probe_fails"}

(* str(e) of the validation failure for each kind of bad input. *)
ValidationMessage(kind) ==
    CASE kind = "missing" -> "Input video not found: clip.mp4"
      [] kind = "missing_cancelled_path" -> "Input video not found: cancelled_show.mp4"
      [] kind = "bad_ext" -> "Unsupported video format: .txt"
      [] kind = "probe_fails" -> "FFprobe failed to read video"
      [] OTHER -> "none"

(* "cancelled" in str(e).lower(): the messages of the model that hold the word. *)
MentionsCancelled(msg) ==
    msg \in {"Processing cancelled",
             "Input video not found: cancelled_show.mp4",
             "Extraction cancelled by user",
             "Upscaling cancelled by user",
             "Assembly cancelled by user"}

StageErrors == {"FrameExtractionError", "UpscalingError", "VideoAssemblyError"}

(* Bug variant: no failure is ever classified as a cancellation. *)
HandlerStage_ErrorOnly(e) == "ERROR"

(* The except clauses of run(), in their order: the stage a failure ends in. *)
HandlerStage(e) ==
    IF e.type \in StageErrors THEN "ERROR"
    ELSE IF MentionsCancelled(e.msg) THEN "CANCELLED"
    ELSE "ERROR"

(* The message processing_error carries. *)
HandlerMessage(e) ==
    CASE e.type = "FrameExtractionError" ->
             <<"Frame extraction failed:", e.msg, e.detail>>
      [] e.type = "UpscalingError" -> <<"AI upscaling failed:", e.msg, e.detail>>
      [] e.type = "VideoAssemblyError" ->
             <<"Video assembly failed:", e.msg, e.detail>>
      [] OTHER -> IF MentionsCancelled(e.msg)
                  THEN <<"Processing was cancelled">>
                  ELSE <<"Processing failed:", e.msg, e.detail>>

----------------------------------------------------------------------------
(* Notifications *)

NoSample == [n |-> 0, by |-> "none", stage |-> "none", cur |-> 0, total |-> 0]

(* progress_updated.emit(current, total, stage, message) *)
Progress(by, stage, cur, total) ==
    [n |-> sample.n + 1, by |-> by, stage |-> stage, cur |-> cur, total |-> total]

(* Bug variant: the label is fixed when the processor starts. *)
OnProgressLabel_Stale(stage) == "Validating"

(* _on_progress: stage_name = self._current_stage.name.capitalize() *)
OnProgressLabel(stage) ==
    CASE stage = "IDLE" -> "Idle"
      [] stage = "VALIDATING" -> "Validating"
      [] stage = "EXTRACTING" -> "Extracting"
      [] stage = "UPSCALING" -> "Upscaling"
      [] stage = "ASSEMBLING" -> "Assembling"
      [] stage = "CLEANUP" -> "Cleanup"
      [] stage = "COMPLETE" -> "Complete"
      [] stage = "ERROR" -> "Error"
      [] stage = "CANCELLED" -> "Cancelled"

(* The label a stage's progress_callback gives its samples: _on_progress   *)
(* inside run(), none for a caller of assemble_video().                    *)
CallbackLabel(entry, stage) ==
    IF entry = "run" THEN OnProgressLabel(stage) ELSE "none"

Label == CallbackLabel(job.entry, current_stage)

----------------------------------------------------------------------------
(* Initial state: the processor (or the assembler) is constructed and its  *)
(* worker has been started; run() has not executed its first statement.    *)

(* What the enhancement tool installed on the machine does when it is     *)
(* launched on a folder of frames.                                         *)
EnhancementTools == {"exit0_all_frames", "exit0_no_frames"}

(* Suffixes of the output path. *)
OutputExts == {".mp4", ".m4v", ".mov", ".mkv", ".webm", ".avi", ".unknownext",
               ".MKV"}

(* The model validate_models_exist() checks when it is given none, and the *)
(* models a job can name; each model is a .bin and a .param file.          *)
DEFAULT_MODEL == "realesrgan-x4plus"

ModelNames == {DEFAULT_MODEL, "realesr-animevideov3"}

AssetExts == {".bin", ".param"}

AssetFiles == ModelNames \X AssetExts

(* validate_models_exist(model_name) passes: neither file is missing. *)
ModelsExist(model_name, missing) ==
    \A ext \in AssetExts : <<model_name, ext>> \notin missing

(* clock is the millisecond time.time() shows when the job sets up its     *)
(* workspace; peer_clock is the one a second processor of the same         *)
(* application sees at its own setup, 0 when there is no second processor. *)
(* stderr_pipe tells how the tool's stderr behaves once the tool exits:    *)
(* "closes" when the reader thread reaches the end of the stream before    *)
(* the join returns, "lingers" when it may not (a slow reader, or a        *)
(* descendant of the tool that keeps the pipe open).                       *)
(* model_name is the model the job is configured with, missing_assets the  *)
(* model files that are not in the models folder.                          *)
RunJobs ==
    [entry : {"run"}, deps : BOOLEAN, input : InputKinds, scale : ScaleInputs,
     frame_count : 0 .. MaxProbed, enh_tool : EnhancementTools,
     given_info : {FALSE}, frames : {0}, has_audio : {TRUE}, out_ext : {".mp4"},
     clock : {1}, peer_clock : {0}, stderr_pipe : {"closes"},
     model_name : {DEFAULT_MODEL}, missing_assets : {{}}]

AssembleJobs ==
    [entry : {"assemble"}, deps : {TRUE}, input : {"ok"}, scale : {4},
     frame_count : {0}, enh_tool : {"exit0_all_frames"},
     given_info : BOOLEAN, frames : 0 .. MaxFrames, has_audio : BOOLEAN,
     out_ext : OutputExts, clock : {1}, peer_clock : {0},
     stderr_pipe : {"closes"}, model_name : {DEFAULT_MODEL},
     missing_assets : {{}}]

(* A job as the GUI starts it on a working installation. *)
TypicalRun ==
    [entry |-> "run", deps |-> TRUE, input |-> "ok", scale |-> 4,
     frame_count |-> 0, enh_tool |-> "exit0_all_frames", given_info |-> FALSE,
     frames |-> 0, has_audio |-> TRUE, out_ext |-> ".mp4", clock |-> 1,
     peer_clock |-> 0, stderr_pipe |-> "closes", model_name |-> DEFAULT_MODEL,
     missing_assets |-> {}]

(* assemble_video() on a folder of one frame, as the tests call it. *)
TypicalAssemble ==
    [entry |-> "assemble", deps |-> TRUE, input |-> "ok", scale |-> 4,
     frame_count |-> 0, enh_tool |-> "exit0_all_frames", given_info |-> TRUE,
     frames |-> 1, has_audio |-> TRUE, out_ext |-> ".mp4", clock |-> 1,
     peer_clock |-> 0, stderr_pipe |-> "closes", model_name |-> DEFAULT_MODEL,
     missing_assets |-> {}]

(* The typical jobs with a tool whose stderr may outlast the join. *)
LingeringJobs ==
    {[TypicalRun EXCEPT !.stderr_pipe = "lingers"],
     [TypicalAssemble EXCEPT !.stderr_pipe = "lingers"]}

(* The typical job with a second processor setting up in the same          *)
(* millisecond or later.                                                   *)
PeerJobs == {[TypicalRun EXCEPT !.peer_clock = t] : t \in 1 .. MaxMillis}

(* The typical job with either model, and with at most one model file     *)
(* missing from the models folder.                                         *)
ModelJobs ==
    {[TypicalRun EXCEPT !.model_name = m, !.missing_assets = a] :
        m \in ModelNames, a \in {{}} \cup {{f} : f \in AssetFiles}}

(* Enhancement tools that exit non-zero, by what they write to stderr: the *)
(* vkCreateInstance failure, an out-of-memory message, or neither.         *)
FailingTools == {"exit1_vulkan", "exit1_memory", "exit1_other"}

(* The typical job with each of the failing tools. *)
ToolJobs == {[TypicalRun EXCEPT !.enh_tool = t] : t \in FailingTools}

(* The typical job with an enhancement tool that exits 0 having written    *)
(* output for some of the input frames only.                               *)
PartialJobs == {[TypicalRun EXCEPT !.enh_tool = "exit0_some_frames"]}

(* assemble_video() on a folder of more frames than one estimate covers. *)
LongJobs == {[TypicalAssemble EXCEPT !.frames = ManyFrames]}

Jobs ==
    RunJobs \cup AssembleJobs \cup PeerJobs \cup LingeringJobs \cup ModelJobs
        \cup ToolJobs \cup LongJobs \cup PartialJobs

(* _temp_base: None, or get_temp_directory() / f"job_{timestamp}" *)
NoDir == <<>>

WorkspaceName(timestamp) == <<"job", timestamp>>

(* What a child that fails writes to its stderr pipe before it exits; the  *)
(* stderr of a child that exits 0 is taken as empty.                       *)
Diagnostics == {"", "Invalid data found when processing input"}

NoChild == [st |-> "none", owner |-> "none", code |-> 0, term |-> FALSE,
            diag |-> "", eof |-> FALSE, cmd |-> <<>>]

NewStage == [cancelled |-> FALSE, process |-> FALSE]

NoLocals == [total_frames |-> 0, last_count |-> 0, frames_processed |-> 0,
             last_size |-> 0]

Init ==
    /\ job \in Jobs
    /\ pc = "start"
    /\ cancelled = FALSE
    /\ current_stage = "IDLE"
    /\ comp = [s \in StageObjects |-> (s = "asm" /\ job.entry = "assemble")]
    /\ stg = [s \in StageObjects |-> NewStage]
    /\ loc = NoLocals
    /\ child = NoChild
    /\ spawned = {}
    /\ ws = "none"
    /\ rmtree = "not_tried"
    /\ inFrames = 0
    /\ outFile = -1
    /\ exc = NoExc
    /\ stageLog = <<>>
    /\ sample = NoSample
    /\ terminals = <<>>
    /\ cpc = "idle"
    /\ cancels = 0
    /\ observed = "none"
    /\ temp_base = [a |-> NoDir, b |-> NoDir]

----------------------------------------------------------------------------
(* VideoProcessor.run() *)

(* _set_stage(stage) *)
SetStage(s) ==
    /\ current_stage' = s
    /\ stageLog' = Append(stageLog, s)

(* A statement of run() raises e: control passes to the except clauses. *)
Throw(e) ==
    /\ exc' = e
    /\ pc' = "except"

Run_Reset ==
    /\ pc = "start"
    /\ job.entry = "run"
    /\ cancelled' = FALSE
    /\ pc' = "set_validating"
    /\ UNCHANGED <<job, current_stage, comp, stg, loc, child, spawned, ws, rmtree,
                   inFrames, outFile, exc, stageLog, sample, terminals, cpc,
                   cancels, observed, temp_base>>

Run_SetValidating ==
    /\ pc = "set_validating"
    /\ SetStage("VALIDATING")
    /\ sample' = Progress("run", "Validating", 0, 100)
    /\ pc' = "validate"
    /\ UNCHANGED <<job, cancelled, comp, stg, loc, child, spawned, ws, rmtree,
                   inFrames, outFile, exc, terminals, cpc, cancels, observed,
                   temp_base>>

(* validate_all_dependencies, validate_input_video, get_video_info: the    *)
(* exception the Validation step raises for job j, NoExc when it passes.   *)
ValidationFailure(j) ==
    IF ~j.deps THEN Raise("Exception", "FFmpeg not found")
    ELSE IF ~ModelsExist(DEFAULT_MODEL, j.missing_assets)
    THEN Raise("Exception", "Model files not found")
    ELSE IF j.input = "ok" THEN NoExc
    ELSE Raise("VideoValidationError", ValidationMessage(j.input))

(* get_video_info is reached, and runs ffprobe, when the checks before it pass. *)
ProbeRuns(j) ==
    /\ j.deps
    /\ ModelsExist(DEFAULT_MODEL, j.missing_assets)
    /\ j.input \in {"ok", "probe_fails"}

Run_Validate ==
    /\ pc = "validate"
    /\ spawned' = IF ProbeRuns(job) THEN spawned \cup {"ffprobe"} ELSE spawned
    /\ IF ValidationFailure(job) # NoExc
       THEN /\ Throw(ValidationFailure(job))
            /\ UNCHANGED sample
       ELSE /\ sample' = Progress("run", "Validating", 100, 100)
            /\ pc' = "check_validated"
            /\ UNCHANGED exc
    /\ UNCHANGED <<job, cancelled, current_stage, comp, stg, loc, child, ws, rmtree,
                   inFrames, outFile, stageLog, terminals, cpc, cancels, observed,
                   temp_base>>

(* if self._cancelled: raise Exception("Processing cancelled") *)
BoundaryCheck(at, next) ==
    /\ pc = at
    /\ IF cancelled
       THEN /\ Throw(Raise("Exception", "Processing cancelled"))
            /\ observed' = "boundary"
       ELSE /\ pc' = next
            /\ UNCHANGED <<exc, observed>>
    /\ UNCHANGED <<job, cancelled, current_stage, comp, stg, loc, child, spawned, ws,
                   rmtree, inFrames, outFile, stageLog, sample, terminals, cpc,
                   cancels, temp_base>>

Run_CheckAfterValidation == BoundaryCheck("check_validated", "setup_temp")

(* Bug variant: run() goes on to Extraction without creating the workspace. *)
Run_SetupTemp_Skipped ==
    /\ pc = "setup_temp"
    /\ pc' = "set_extracting"
    /\ UNCHANGED <<job, cancelled, current_stage, comp, stg, loc, child, spawned, ws,
                   rmtree, inFrames, outFile, exc, stageLog, sample, terminals, cpc,
                   cancels, observed, temp_base>>

Run_SetupTemp ==
    /\ pc = "setup_temp"
    /\ ws' = "exists"
    /\ temp_base' = [temp_base EXCEPT !.a = WorkspaceName(job.clock)]
    /\ pc' = "set_extracting"
    /\ UNCHANGED <<job, cancelled, current_stage, comp, stg, loc, child, spawned,
                   rmtree, inFrames, outFile, exc, stageLog, sample, terminals, cpc,
                   cancels, observed>>

(* _setup_temp_directories() of the second processor: mkdir(parents=True,  *)
(* exist_ok=True) of the name its own clock reading gives.  The clock does *)
(* not run backwards, and a job outlasts the millisecond it started in.    *)
Peer_SetupTemp ==
    /\ job.peer_clock # 0
    /\ temp_base.b = NoDir
    /\ job.peer_clock > job.clock => temp_base.a # NoDir
    /\ job.peer_clock = job.clock => rmtree = "not_tried"
    /\ temp_base' = [temp_base EXCEPT !.b = WorkspaceName(job.peer_clock)]
    /\ UNCHANGED <<job, pc, cancelled, current_stage, comp, stg, loc, child, spawned,
                   ws, rmtree, inFrames, outFile, exc, stageLog, sample, terminals,
                   cpc, cancels, observed>>

Run_SetExtracting ==
    /\ pc = "set_extracting"
    /\ SetStage("EXTRACTING")
    /\ pc' = "new_extractor"
    /\ UNCHANGED <<job, cancelled, comp, stg, loc, child, spawned, ws, rmtree,
                   inFrames, outFile, exc, sample, terminals, cpc, cancels, observed,
                   temp_base>>

Run_NewExtractor ==
    /\ pc = "new_extractor"
    /\ comp' = [comp EXCEPT !["ext"] = TRUE]
    /\ stg' = [stg EXCEPT !["ext"] = NewStage]
    /\ pc' = "ext_begin"
    /\ UNCHANGED <<job, cancelled, current_stage, loc, child, spawned, ws, rmtree,
                   inFrames, outFile, exc, stageLog, sample, terminals, cpc, cancels,
                   observed, temp_base>>

----------------------------------------------------------------------------
(* FrameExtractor.extract() *)

(* Bug variant: the probed count is used as it is. *)
ExtractTotal_AsProbed(frame_count) == frame_count

(* total_frames = video_info.frame_count, 1000 when the probe reported 0 *)
ExtractTotal(frame_count) ==
    IF frame_count = 0 THEN PROVISIONAL_TOTAL ELSE frame_count

(* Bug variant: no finally clause, the handle is kept when the call raises. *)
StageRaise_KeepsHandle(s, e) ==
    /\ stg' = stg
    /\ exc' = e
    /\ pc' = IF job.entry = "run" THEN "except" ELSE "done"

(* The stage call raises e: its finally clause clears the process handle   *)
(* and the exception reaches run()'s except clauses.                       *)
StageRaise(s, e) ==
    /\ stg' = [stg EXCEPT ![s].process = FALSE]
    /\ exc' = e
    /\ pc' = IF job.entry = "run" THEN "except" ELSE "done"

(* _stderr_output once stderr_thread.join(timeout=2.0) has returned.  The  *)
(* reader appends line by line: when it has reached the end of the stream  *)
(* the text is all the child wrote, and when the join timed out it is the  *)
(* lines appended so far.                                                  *)
StderrOutput(process) ==
    IF process.eof THEN {process.diag} ELSE {"", process.diag}

(* Resets the stage's own flag, probes the source again and reports (0, total). *)
Ext_Begin ==
    /\ pc = "ext_begin"
    /\ spawned' = spawned \cup {"ffprobe"}
    /\ \E probe_ok \in BOOLEAN :
         IF probe_ok
         THEN /\ stg' = [stg EXCEPT !["ext"].cancelled = FALSE]
              /\ loc' = [NoLocals EXCEPT !.total_frames = ExtractTotal(job.frame_count)]
              /\ sample' = Progress("extract", Label, 0,
                                    ExtractTotal(job.frame_count))
              /\ pc' = "ext_spawn"
              /\ UNCHANGED exc
         ELSE /\ stg' = [stg EXCEPT !["ext"].cancelled = FALSE]
              /\ exc' = Raise("FrameExtractionError", "Failed to get video info")
              /\ pc' = "except"
              /\ UNCHANGED <<loc, sample>>
    /\ UNCHANGED <<job, cancelled, current_stage, comp, child, ws, rmtree, inFrames,
                   outFile, stageLog, terminals, cpc, cancels, observed,
                   temp_base>>

(* cmd of extract() *)
ExtractionCommand ==
    <<"ffmpeg", "-i", "input", "-qscale:v", "2", "frame_%08d.png", "-y">>

(* subprocess.Popen: the child runs, or the launch fails with an OSError,  *)
(* which is no SubprocessError and leaves extract() as it is.              *)
Ext_Spawn ==
    /\ pc = "ext_spawn"
    /\ \/ /\ child' = [st |-> "running", owner |-> "extract", code |-> 0,
                       term |-> FALSE, diag |-> "", eof |-> FALSE,
                       cmd |-> ExtractionCommand]
          /\ spawned' = spawned \cup {"extract"}
          /\ stg' = [stg EXCEPT !["ext"].process = TRUE]
          /\ pc' = "ext_poll"
          /\ UNCHANGED exc
       \/ /\ StageRaise("ext", Raise("OSError", "The system cannot find the file"))
          /\ UNCHANGED <<child, spawned>>
    /\ UNCHANGED <<job, cancelled, current_stage, comp, loc, ws, rmtree, inFrames,
                   outFile, stageLog, sample, terminals, cpc, cancels, observed,
                   temp_base>>

(* Bug variant: the sample carries the files added since the last sample. *)
PollCurrent_Delta(current_count, last_count) == current_count - last_count

(* The current value of a poll-loop sample: the measured file count. *)
PollCurrent(current_count, last_count) == current_count

(* Bug variant: the loop is left as soon as every expected frame file is   *)
(* there, whether or not the child has exited.                             *)
Ext_Poll_LeavesOnCount ==
    /\ pc = "ext_poll"
    /\ IF child.st = "exited" \/ inFrames >= loc.total_frames
       THEN /\ pc' = "ext_finish"
            /\ UNCHANGED <<stg, exc, child, loc, sample, observed>>
       ELSE /\ IF inFrames # loc.last_count
               THEN /\ loc' = [loc EXCEPT !.last_count = inFrames]
                    /\ sample' = Progress("extract", Label,
                                          PollCurrent(inFrames, loc.last_count),
                                          loc.total_frames)
               ELSE UNCHANGED <<loc, sample>>
            /\ UNCHANGED <<pc, stg, exc, child, observed>>
    /\ UNCHANGED <<job, cancelled, current_stage, comp, spawned, ws, rmtree, inFrames,
                   outFile, stageLog, terminals, cpc, cancels, temp_base>>

(* Bug variant: the count that was reported is not remembered. *)
Ext_Poll_ForgetsCount ==
    /\ pc = "ext_poll"
    /\ IF child.st = "exited"
       THEN /\ pc' = "ext_finish"
            /\ UNCHANGED <<stg, exc, child, loc, sample, observed>>
       ELSE IF stg["ext"].cancelled
       THEN /\ child' = [child EXCEPT !.term = TRUE]
            /\ StageRaise("ext", Raise("FrameExtractionError",
                                       "Extraction cancelled by user"))
            /\ observed' = "poll"
            /\ UNCHANGED <<loc, sample>>
       ELSE /\ IF inFrames # loc.last_count
               THEN /\ sample' = Progress("extract", Label,
                                          PollCurrent(inFrames, loc.last_count),
                                          loc.total_frames)
                    /\ UNCHANGED loc
               ELSE UNCHANGED <<loc, sample>>
            /\ UNCHANGED <<pc, stg, exc, child, observed>>
    /\ UNCHANGED <<job, cancelled, current_stage, comp, spawned, ws, rmtree, inFrames,
                   outFile, stageLog, terminals, cpc, cancels, temp_base>>

(* One iteration of the poll loop. *)
Ext_Poll ==
    /\ pc = "ext_poll"
    /\ IF child.st = "exited"
       THEN /\ pc' = "ext_finish"
            /\ UNCHANGED <<stg, exc, child, loc, sample, observed>>
       ELSE IF stg["ext"].cancelled
       THEN /\ child' = [child EXCEPT !.term = TRUE]
            /\ StageRaise("ext", Raise("FrameExtractionError",
                                       "Extraction cancelled by user"))
            /\ observed' = "poll"
            /\ UNCHANGED <<loc, sample>>
       ELSE /\ IF inFrames # loc.last_count
               THEN /\ loc' = [loc EXCEPT !.last_count = inFrames]
                    /\ sample' = Progress("extract", Label,
                                          PollCurrent(inFrames, loc.last_count),
                                          loc.total_frames)
               ELSE UNCHANGED <<loc, sample>>
            /\ UNCHANGED <<pc, stg, exc, child, observed>>
    /\ UNCHANGED <<job, cancelled, current_stage, comp, spawned, ws, rmtree, inFrames,
                   outFile, stageLog, terminals, cpc, cancels, temp_base>>

(* Bug variant: the frame count is looked at before the return code. *)
Ext_Finish_CountFirst ==
    /\ pc = "ext_finish"
    /\ IF inFrames = 0
       THEN /\ \E text \in StderrOutput(child) :
                 StageRaise("ext", RaiseWith("FrameExtractionError",
                                             "No frames were extracted", text))
            /\ UNCHANGED sample
       ELSE IF child.code # 0
       THEN /\ \E text \in StderrOutput(child) :
                 StageRaise("ext", RaiseWith("FrameExtractionError",
                                             "FFmpeg extraction failed", text))
            /\ UNCHANGED sample
       ELSE /\ sample' = Progress("extract", Label, inFrames, inFrames)
            /\ stg' = [stg EXCEPT !["ext"].process = FALSE]
            /\ pc' = "check_extracted"
            /\ UNCHANGED exc
    /\ UNCHANGED <<job, cancelled, current_stage, comp, loc, child, spawned, ws,
                   rmtree, inFrames, outFile, stageLog, terminals, cpc, cancels,
                   observed, temp_base>>

(* Bug variant: stderr_thread.join() without a timeout, which returns only *)
(* when the reader has reached the end of the stream.                      *)
Ext_Finish_JoinUnbounded ==
    /\ pc = "ext_finish"
    /\ child.eof
    /\ IF child.code # 0
       THEN /\ StageRaise("ext", RaiseWith("FrameExtractionError",
                                           "FFmpeg extraction failed", child.diag))
            /\ UNCHANGED sample
       ELSE IF inFrames = 0
       THEN /\ StageRaise("ext", RaiseWith("FrameExtractionError",
                                           "No frames were extracted", child.diag))
            /\ UNCHANGED sample
       ELSE /\ sample' = Progress("extract", Label, inFrames, inFrames)
            /\ stg' = [stg EXCEPT !["ext"].process = FALSE]
            /\ pc' = "check_extracted"
            /\ UNCHANGED exc
    /\ UNCHANGED <<job, cancelled, current_stage, comp, loc, child, spawned, ws,
                   rmtree, inFrames, outFile, stageLog, terminals, cpc, cancels,
                   observed, temp_base>>

(* After the child exited: stderr_thread.join(timeout=2.0), then return     *)
(* code, frame count, completion sample.  The messages are built from      *)
(* _stderr_output as it is when the join has returned.                     *)
Ext_Finish ==
    /\ pc = "ext_finish"
    /\ IF child.code # 0
       THEN /\ \E text \in StderrOutput(child) :
                 StageRaise("ext", RaiseWith("FrameExtractionError",
                                             "FFmpeg extraction failed", text))
            /\ UNCHANGED sample
       ELSE IF inFrames = 0
       THEN /\ \E text \in StderrOutput(child) :
                 StageRaise("ext", RaiseWith("FrameExtractionError",
                                             "No frames were extracted", text))
            /\ UNCHANGED sample
       ELSE /\ sample' = Progress("extract", Label, inFrames, inFrames)
            /\ stg' = [stg EXCEPT !["ext"].process = FALSE]
            /\ pc' = "check_extracted"
            /\ UNCHANGED exc
    /\ UNCHANGED <<job, cancelled, current_stage, comp, loc, child, spawned, ws,
                   rmtree, inFrames, outFile, stageLog, terminals, cpc, cancels,
                   observed, temp_base>>

Run_CheckAfterExtraction == BoundaryCheck("check_extracted", "set_upscaling")

----------------------------------------------------------------------------
(* Upscaler *)

(* Bug variant: the stage after Extraction is announced as ASSEMBLING. *)
Run_SetUpscaling_WrongStage ==
    /\ pc = "set_upscaling"
    /\ SetStage("ASSEMBLING")
    /\ pc' = "new_upscaler"
    /\ UNCHANGED <<job, cancelled, comp, stg, loc, child, spawned, ws, rmtree,
                   inFrames, outFile, exc, sample, terminals, cpc, cancels, observed,
                   temp_base>>

Run_SetUpscaling ==
    /\ pc = "set_upscaling"
    /\ SetStage("UPSCALING")
    /\ pc' = "new_upscaler"
    /\ UNCHANGED <<job, cancelled, comp, stg, loc, child, spawned, ws, rmtree,
                   inFrames, outFile, exc, sample, terminals, cpc, cancels, observed,
                   temp_base>>

(* Upscaler.__init__: the scale is checked here, when the object is built. *)
ScaleAccepted(scale) == scale \in VALID_SCALES

Run_NewUpscaler ==
    /\ pc = "new_upscaler"
    /\ IF ScaleAccepted(job.scale)
       THEN /\ comp' = [comp EXCEPT !["up"] = TRUE]
            /\ stg' = [stg EXCEPT !["up"] = NewStage]
            /\ pc' = "up_begin"
            /\ UNCHANGED exc
       ELSE /\ Throw(Raise("ValueError", "Invalid scale factor"))
            /\ UNCHANGED <<comp, stg>>
    /\ UNCHANGED <<job, cancelled, current_stage, loc, child, spawned, ws, rmtree,
                   inFrames, outFile, stageLog, sample, terminals, cpc, cancels,
                   observed, temp_base>>

(* Bug variant: the call is accepted whatever its arguments. *)
CallRaisesTypeError_Never(nargs, nparams) == FALSE

(* A call with more positional arguments than the callee has parameters    *)
(* raises TypeError.                                                       *)
CallRaisesTypeError(nargs, nparams) == nargs > nparams

(* Bug variant: upscale() goes on to count its input frames without the    *)
(* model check.                                                            *)
Up_Begin_NoModelCheck ==
    /\ pc = "up_begin"
    /\ stg' = [stg EXCEPT !["up"].cancelled = FALSE]
    /\ pc' = "up_count"
    /\ UNCHANGED <<job, cancelled, current_stage, comp, loc, child, spawned, ws,
                   rmtree, inFrames, outFile, exc, stageLog, sample, terminals, cpc,
                   cancels, observed, temp_base>>

(* upscale() up to the model check: validate_models_exist(self.model_name,  *)
(* self.scale) is a call of a one-parameter function with two arguments;   *)
(* the TypeError is caught by `except Exception` and re-raised as an       *)
(* UpscalingError, before the input frames are counted.  No statement of   *)
(* upscale() after the check, and no statement of run() after the call of  *)
(* upscale(), is ever executed, so "up_count" has no successor.            *)
Up_Begin ==
    /\ pc = "up_begin"
    /\ IF CallRaisesTypeError(UPSCALE_VALIDATE_ARGS, VALIDATE_MODELS_PARAMS)
       THEN /\ stg' = [stg EXCEPT !["up"].cancelled = FALSE]
            /\ exc' = Raise("UpscalingError",
                            "validate_models_exist() takes from 0 to 1 positional arguments but 2 were given")
            /\ pc' = "except"
       ELSE /\ stg' = [stg EXCEPT !["up"].cancelled = FALSE]
            /\ pc' = "up_count"
            /\ UNCHANGED exc
    /\ UNCHANGED <<job, cancelled, current_stage, comp, loc, child, spawned, ws,
                   rmtree, inFrames, outFile, stageLog, sample, terminals, cpc,
                   cancels, observed, temp_base>>

----------------------------------------------------------------------------
(* The except clauses of run(): _set_stage, cleanup, processing_error. *)

Run_ExceptSetStage ==
    /\ pc = "except"
    /\ SetStage(HandlerStage(exc))
    /\ pc' = "except_cleanup"
    /\ UNCHANGED <<job, cancelled, comp, stg, loc, child, spawned, ws, rmtree,
                   inFrames, outFile, exc, sample, terminals, cpc, cancels, observed,
                   temp_base>>

(* Bug variant: the existence test is inverted, nothing is ever removed. *)
CleanupTemp_InvertedTest == UNCHANGED <<ws, rmtree, inFrames>>

(* _cleanup_temp_directories: rmtree of an existing workspace removes it   *)
(* or fails, and a failure is swallowed.                                   *)
CleanupTemp ==
    IF ws = "exists"
    THEN \/ /\ ws' = "removed"
            /\ rmtree' = "ok"
            /\ inFrames' = 0
         \/ /\ rmtree' = "failed"
            /\ UNCHANGED <<ws, inFrames>>
    ELSE UNCHANGED <<ws, rmtree, inFrames>>

(* Bug variant: a failed removal replaces the error being reported. *)
Run_ExceptCleanup_Propagates ==
    /\ pc = "except_cleanup"
    /\ CleanupTemp
    /\ exc' = IF rmtree' = "failed"
              THEN Raise("OSError", "Directory not empty")
              ELSE exc
    /\ pc' = "except_emit"
    /\ UNCHANGED <<job, cancelled, current_stage, comp, stg, loc, child, spawned,
                   outFile, stageLog, sample, terminals, cpc, cancels, observed,
                   temp_base>>

Run_ExceptCleanup ==
    /\ pc = "except_cleanup"
    /\ CleanupTemp
    /\ pc' = "except_emit"
    /\ UNCHANGED <<job, cancelled, current_stage, comp, stg, loc, child, spawned,
                   outFile, exc, stageLog, sample, terminals, cpc, cancels, observed,
                   temp_base>>

(* Bug variant: a cancelled job returns without a notification. *)
Run_ExceptEmit_SilentOnCancel ==
    /\ pc = "except_emit"
    /\ terminals' = IF HandlerStage(exc) = "CANCELLED"
                    THEN terminals
                    ELSE Append(terminals, [signal |-> "processing_error",
                                            text |-> HandlerMessage(exc)])
    /\ pc' = "done"
    /\ UNCHANGED <<job, cancelled, current_stage, comp, stg, loc, child, spawned, ws,
                   rmtree, inFrames, outFile, exc, stageLog, sample, cpc, cancels,
                   observed, temp_base>>

Run_ExceptEmit ==
    /\ pc = "except_emit"
    /\ terminals' = Append(terminals, [signal |-> "processing_error",
                                       text |-> HandlerMessage(exc)])
    /\ pc' = "done"
    /\ UNCHANGED <<job, cancelled, current_stage, comp, stg, loc, child, spawned, ws,
                   rmtree, inFrames, outFile, exc, stageLog, sample, cpc, cancels,
                   observed, temp_base>>

----------------------------------------------------------------------------
(* VideoAssembler.assemble(), entered through assemble_video() *)

(* Bug variant: the estimate is not capped below the total. *)
AssemblyEstimate_Uncapped(frames_processed, total_frames) ==
    frames_processed + ASSEMBLY_STEP

(* frames_processed = min(frames_processed + 10, total_frames - 1) *)
AssemblyEstimate(frames_processed, total_frames) ==
    Min(frames_processed + ASSEMBLY_STEP, total_frames - 1)

(* output_size < 1000 *)
OutputTooSmall(size) == size < MIN_OUTPUT_SIZE

(* Bug variant: the suffix is compared as written. *)
Lower_Identity(ext) == ext

(* str.lower() on the suffixes of the model *)
Lower(ext) == IF ext = ".MKV" THEN ".mkv" ELSE ext

(* _get_codec_args(output_ext) *)
GetCodecArgs(output_ext) ==
    IF output_ext \in {".mp4", ".m4v", ".mov"}
    THEN <<"-c:v", "libx264", "-crf", "18", "-preset", "slow",
           "-c:a", "aac", "-b:a", "192k">>
    ELSE IF output_ext = ".mkv"
    THEN <<"-c:v", "libx264", "-crf", "18", "-preset", "slow", "-c:a", "copy">>
    ELSE IF output_ext = ".webm"
    THEN <<"-c:v", "libvpx-vp9", "-crf", "20", "-b:v", "0",
           "-c:a", "libopus", "-b:a", "192k">>
    ELSE IF output_ext = ".avi"
    THEN <<"-c:v", "libx264", "-crf", "18", "-preset", "slow",
           "-c:a", "mp3", "-b:a", "192k">>
    ELSE <<"-c:v", "libx264", "-crf", "18", "-preset", "slow",
           "-c:a", "aac", "-b:a", "192k">>

(* Bug variant: the original file is always added as a second input. *)
AudioArgs_Always(has_audio) ==
    <<"-i", "original", "-map", "0:v", "-map", "1:a?">>

(* if self.video_info.has_audio: cmd.extend([...]) *)
AudioArgs(has_audio) ==
    IF has_audio
    THEN <<"-i", "original", "-map", "0:v", "-map", "1:a?">>
    ELSE <<>>

(* cmd of assemble(), for the suffix of the output path *)
AssemblyCommand(has_audio, suffix) ==
    <<"ffmpeg", "-framerate", "fps", "-i", "frame_%08d.png">>
        \o AudioArgs(has_audio)
        \o GetCodecArgs(Lower(suffix))
        \o <<"-pix_fmt", "yuv420p", "-movflags", "+faststart", "-y", "output">>

(* Sizes the output file is seen to have; -1 is "does not exist". *)
OutSizes == {0, MIN_OUTPUT_SIZE - 1, MIN_OUTPUT_SIZE, 1024, 1025}

Asm_Begin ==
    /\ pc = "start"
    /\ job.entry = "assemble"
    /\ spawned' = IF job.given_info THEN spawned ELSE spawned \cup {"ffprobe"}
    /\ stg' = [stg EXCEPT !["asm"].cancelled = FALSE]
    /\ \E probe_ok \in BOOLEAN :
         IF ~job.given_info /\ ~probe_ok
         THEN /\ exc' = Raise("VideoAssemblyError", "Failed to get video info")
              /\ pc' = "done"
              /\ UNCHANGED <<loc, sample>>
         ELSE IF job.frames = 0
         THEN /\ exc' = Raise("VideoAssemblyError", "No frames found in directory")
              /\ pc' = "done"
              /\ UNCHANGED <<loc, sample>>
         ELSE /\ loc' = [NoLocals EXCEPT !.total_frames = job.frames]
              /\ sample' = Progress("assemble", Label, 0, job.frames)
              /\ pc' = "asm_spawn"
              /\ UNCHANGED exc
    /\ UNCHANGED <<job, cancelled, current_stage, comp, child, ws, rmtree, inFrames,
                   outFile, stageLog, terminals, cpc, cancels, observed,
                   temp_base>>

Asm_Spawn ==
    /\ pc = "asm_spawn"
    /\ \/ /\ child' = [st |-> "running", owner |-> "assemble", code |-> 0,
                       term |-> FALSE, diag |-> "", eof |-> FALSE,
                       cmd |-> AssemblyCommand(job.has_audio, job.out_ext)]
          /\ spawned' = spawned \cup {"assemble"}
          /\ stg' = [stg EXCEPT !["asm"].process = TRUE]
          /\ pc' = "asm_poll"
          /\ UNCHANGED exc
       \/ /\ StageRaise("asm", Raise("OSError", "The system cannot find the file"))
          /\ UNCHANGED <<child, spawned>>
    /\ UNCHANGED <<job, cancelled, current_stage, comp, loc, ws, rmtree, inFrames,
                   outFile, stageLog, sample, terminals, cpc, cancels, observed,
                   temp_base>>

Asm_Poll ==
    /\ pc = "asm_poll"
    /\ IF child.st = "exited"
       THEN /\ pc' = "asm_finish"
            /\ UNCHANGED <<stg, exc, child, loc, sample, observed>>
       ELSE IF stg["asm"].cancelled
       THEN /\ child' = [child EXCEPT !.term = TRUE]
            /\ StageRaise("asm", Raise("VideoAssemblyError",
                                       "Assembly cancelled by user"))
            /\ observed' = "poll"
            /\ UNCHANGED <<loc, sample>>
       ELSE /\ IF outFile >= 0 /\ outFile > loc.last_size
               THEN /\ loc' = [loc EXCEPT
                                 !.last_size = outFile,
                                 !.frames_processed =
                                     AssemblyEstimate(loc.frames_processed,
                                                      loc.total_frames)]
                    /\ sample' = Progress("assemble", Label,
                                          AssemblyEstimate(loc.frames_processed,
                                                           loc.total_frames),
                                          loc.total_frames)
               ELSE UNCHANGED <<loc, sample>>
            /\ UNCHANGED <<pc, stg, exc, child, observed>>
    /\ UNCHANGED <<job, cancelled, current_stage, comp, spawned, ws, rmtree, inFrames,
                   outFile, stageLog, terminals, cpc, cancels, temp_base>>

Asm_Finish ==
    /\ pc = "asm_finish"
    /\ IF child.code # 0
       THEN /\ \E text \in StderrOutput(child) :
                 StageRaise("asm", RaiseWith("VideoAssemblyError",
                                             "FFmpeg encoding failed", text))
            /\ UNCHANGED sample
       ELSE IF outFile < 0
       THEN /\ StageRaise("asm", Raise("VideoAssemblyError",
                                       "Output video was not created"))
            /\ UNCHANGED sample
       ELSE IF OutputTooSmall(outFile)
       THEN /\ StageRaise("asm", Raise("VideoAssemblyError",
                                       "Output video appears to be corrupted"))
            /\ UNCHANGED sample
       ELSE /\ sample' = Progress("assemble", Label, loc.total_frames,
                                  loc.total_frames)
            /\ stg' = [stg EXCEPT !["asm"].process = FALSE]
            /\ pc' = "done"
            /\ UNCHANGED exc
    /\ UNCHANGED <<job, cancelled, current_stage, comp, loc, child, spawned, ws,
                   rmtree, inFrames, outFile, stageLog, terminals, cpc, cancels,
                   observed, temp_base>>

----------------------------------------------------------------------------
(* The child process of the running stage (the environment).  It only adds *)
(* frame files and only grows the output file; it exits with any code.     *)

Child_WriteFrame ==
    /\ child.st = "running"
    /\ child.owner = "extract"
    /\ ws = "exists"
    /\ inFrames < MaxFrames
    /\ inFrames' = inFrames + 1
    /\ UNCHANGED <<job, pc, cancelled, current_stage, comp, stg, loc, child, spawned,
                   ws, rmtree, outFile, exc, stageLog, sample, terminals, cpc,
                   cancels, observed, temp_base>>

Child_WriteOutput ==
    /\ child.st = "running"
    /\ child.owner = "assemble"
    /\ \E size \in OutSizes :
         /\ size > outFile
         /\ outFile' = size
    /\ UNCHANGED <<job, pc, cancelled, current_stage, comp, stg, loc, child, spawned,
                   ws, rmtree, inFrames, exc, stageLog, sample, terminals, cpc,
                   cancels, observed, temp_base>>

Child_Exit ==
    /\ child.st = "running"
    /\ \E code \in {0, 1}, diag \in Diagnostics, eof \in BOOLEAN :
         /\ code = 0 => diag = ""
         /\ job.stderr_pipe = "closes" => eof
         /\ child' = [child EXCEPT !.st = "exited", !.code = code, !.diag = diag,
                                   !.eof = eof]
    /\ UNCHANGED <<job, pc, cancelled, current_stage, comp, stg, loc, spawned, ws,
                   rmtree, inFrames, outFile, exc, stageLog, sample, terminals, cpc,
                   cancels, observed, temp_base>>

----------------------------------------------------------------------------
(* cancel(), on the caller's thread *)

(* FrameExtractor.cancel / Upscaler.cancel / VideoAssembler.cancel, first  *)
(* part: self._cancelled = True.                                           *)
StageCancel(s) == stg' = [stg EXCEPT ![s].cancelled = TRUE]

(* Where cancel() of a stage is between `if self._process is not None` and *)
(* the call of terminate().                                                *)
TerminatePc(s) ==
    CASE s = "ext" -> "term_ext"
      [] s = "up" -> "term_up"
      [] s = "asm" -> "term_asm"

(* Bug variant: cancel() of a stage never calls terminate(). *)
StageTerminate_Skipped(s) == UNCHANGED child

(* self._process.terminate(), with the handle as it is now: a running      *)
(* child is asked to terminate, a child that has exited is left alone, and *)
(* on a handle that has become None the call raises AttributeError.        *)
StageTerminate(s) ==
    child' = IF stg[s].process /\ child.st = "running"
             THEN [child EXCEPT !.term = TRUE]
             ELSE child

(* Bug variant: the call of terminate() is not inside try/except, so the   *)
(* AttributeError of a None handle reaches the caller of cancel().         *)
TerminateReturnsTo_Unguarded(next, handle) == IF handle THEN next ELSE "raised"

(* try: ... except Exception: pass -- cancel() goes on whatever the call   *)
(* of terminate() did.                                                     *)
TerminateReturnsTo(next, handle) == next

(* VideoProcessor.cancel() sets the flag; a direct user of the assembler   *)
(* calls VideoAssembler.cancel().                                          *)
Cancel_Call ==
    /\ cpc = "idle"
    /\ cancels < MaxCancels + (IF terminals # <<>> THEN MaxLateCancels ELSE 0)
    /\ cancels' = cancels + 1
    /\ IF job.entry = "run"
       THEN /\ cancelled' = TRUE
            /\ cpc' = "cancel_ext"
       ELSE /\ cpc' = "cancel_asm"
            /\ UNCHANGED cancelled
    /\ UNCHANGED <<job, pc, current_stage, comp, stg, loc, child, spawned, ws, rmtree,
                   inFrames, outFile, exc, stageLog, sample, terminals, observed,
                   temp_base>>

(* if self._<component>: self._<component>.cancel() *)
CancelComponent(at, s, next) ==
    /\ cpc = at
    /\ IF comp[s]
       THEN /\ StageCancel(s)
            /\ cpc' = IF stg[s].process THEN TerminatePc(s) ELSE next
       ELSE /\ UNCHANGED stg
            /\ cpc' = next
    /\ UNCHANGED <<job, pc, cancelled, current_stage, comp, loc, child, spawned, ws,
                   rmtree, inFrames, outFile, exc, stageLog, sample, terminals,
                   cancels, observed, temp_base>>

(* The second part of a stage's cancel(), after the handle was seen set. *)
CancelTerminate(s, next) ==
    /\ cpc = TerminatePc(s)
    /\ StageTerminate(s)
    /\ cpc' = TerminateReturnsTo(next, stg[s].process)
    /\ UNCHANGED <<job, pc, cancelled, current_stage, comp, stg, loc, spawned, ws,
                   rmtree, inFrames, outFile, exc, stageLog, sample, terminals,
                   cancels, observed, temp_base>>

Cancel_Extractor == CancelComponent("cancel_ext", "ext", "cancel_up")

Cancel_Upscaler == CancelComponent("cancel_up", "up", "cancel_asm")

Cancel_Assembler == CancelComponent("cancel_asm", "asm", "idle")

Cancel_TerminateExtractor == CancelTerminate("ext", "cancel_up")

Cancel_TerminateAssembler == CancelTerminate("asm", "idle")

----------------------------------------------------------------------------
(* Specifications *)

Worker ==
    \/ Run_Reset
    \/ Run_SetValidating
    \/ Run_Validate
    \/ Run_CheckAfterValidation
    \/ Run_SetupTemp
    \/ Run_SetExtracting
    \/ Run_NewExtractor
    \/ Ext_Begin
    \/ Ext_Spawn
    \/ Ext_Poll
    \/ Ext_Finish
    \/ Run_CheckAfterExtraction
    \/ Run_SetUpscaling
    \/ Run_NewUpscaler
    \/ Up_Begin
    \/ Run_ExceptSetStage
    \/ Run_ExceptCleanup
    \/ Run_ExceptEmit
    \/ Asm_Begin
    \/ Asm_Spawn
    \/ Asm_Poll
    \/ Asm_Finish

Next ==
    \/ Run_Reset
    \/ Run_SetValidating
    \/ Run_Validate
    \/ Run_CheckAfterValidation
    \/ Run_SetupTemp
    \/ Run_SetExtracting
    \/ Run_NewExtractor
    \/ Ext_Begin
    \/ Ext_Spawn
    \/ Ext_Poll
    \/ Ext_Finish
    \/ Run_CheckAfterExtraction
    \/ Run_SetUpscaling
    \/ Run_NewUpscaler
    \/ Up_Begin
    \/ Run_ExceptSetStage
    \/ Run_ExceptCleanup
    \/ Run_ExceptEmit
    \/ Asm_Begin
    \/ Asm_Spawn
    \/ Asm_Poll
    \/ Asm_Finish
    \/ Child_WriteFrame
    \/ Child_WriteOutput
    \/ Child_Exit
    \/ Cancel_Call
    \/ Cancel_Extractor
    \/ Cancel_Upscaler
    \/ Cancel_Assembler
    \/ Cancel_TerminateExtractor
    \/ Cancel_TerminateAssembler
    \/ Peer_SetupTemp

Spec == Init /\ [][Next]_vars

(* The worker thread keeps running, and an external tool that was started  *)
(* exits at some point.                                                    *)
FairSpec == Spec /\ WF_vars(Worker) /\ WF_vars(Child_Exit)

TypeOK ==
    /\ job \in Jobs
    /\ cancelled \in BOOLEAN
    /\ current_stage \in Stages
    /\ comp \in [StageObjects -> BOOLEAN]
    /\ stg \in [StageObjects -> [cancelled : BOOLEAN, process : BOOLEAN]]
    /\ child.st \in {"none", "running", "exited"}
    /\ spawned \subseteq {"ffprobe", "extract", "upscale", "assemble"}
    /\ ws \in {"none", "exists", "removed"}
    /\ temp_base \in [a : {NoDir, WorkspaceName(job.clock)},
                     b : {NoDir, WorkspaceName(job.peer_clock)}]
    /\ rmtree \in {"not_tried", "ok", "failed"}
    /\ inFrames \in 0 .. MaxFrames
    /\ outFile \in OutSizes \cup {-1}
    /\ Len(terminals) <= 2
    /\ cancels \in 0 .. MaxCancels
    /\ observed \in {"none", "boundary", "poll"}

----------------------------------------------------------------------------
(* Properties *)

IsPrefix(s, t) ==
    /\ Len(s) <= Len(t)
    /\ \A i \in 1 .. Len(s) : s[i] = t[i]

StageEmitters == {"extract", "upscale", "assemble"}

StageProcesses == {"extract", "upscale", "assemble"}

(* C1: every execution of run() emits exactly one terminal notification:   *)
(* never two, exactly one once run() has returned, and run() does return   *)
(* (the worker keeps running and a started tool exits).                    *)
C1_ExactlyOneTerminal ==
    /\ [](Len(terminals) <= 1)
    /\ []((job.entry = "run" /\ pc = "done") => Len(terminals) = 1)
    /\ <>(job.entry = "run" => pc = "done")

C1_Witness ==
    /\ job.entry = "run"
    /\ pc = "done"
    /\ Len(terminals) = 1
    /\ terminals[1].signal = "processing_error"
    /\ observed = "poll"

(* C2: a cancellation request that run() has observed, at a stage boundary *)
(* or inside a poll loop, ends the job in CANCELLED.                       *)
C2_CancelEndsCancelled ==
    (job.entry = "run" /\ pc = "done" /\ observed # "none")
        => current_stage = "CANCELLED"

(* C3 as stated: when the terminal notification has been emitted, a        *)
(* workspace that was created no longer exists.                            *)
C3_WorkspaceGoneAtTerminal ==
    (Len(terminals) > 0 /\ ws # "none") => ws = "removed"

(* C3, amended: when the terminal notification has been emitted, removal   *)
(* of a created workspace has been attempted, and the workspace no longer  *)
(* exists unless that rmtree failed.                                       *)
C3_WorkspaceGoneUnlessRmtreeFailed ==
    (Len(terminals) > 0 /\ ws # "none")
        => (rmtree # "not_tried" /\ (ws = "removed" \/ rmtree = "failed"))

C3_Witness ==
    /\ Len(terminals) = 1
    /\ ws = "removed"
    /\ rmtree = "ok"

(* C4: a job that is never cancelled, passes validation, has a valid scale *)
(* and whose extraction succeeded (so that enhancement was entered) ends   *)
(* in COMPLETE with processing_complete.                                   *)
C4_HappyPathCompletes ==
    (/\ job.entry = "run"
     /\ pc = "done"
     /\ cancels = 0
     /\ ScaleAccepted(job.scale)
     /\ job.enh_tool = "exit0_all_frames"
     /\ Len(stageLog) >= 3
     /\ stageLog[3] = "UPSCALING")
        => (/\ current_stage = "COMPLETE"
            /\ Len(terminals) = 1
            /\ terminals[1].signal = "processing_complete")

(* The stages set so far: a prefix of the linear order, optionally         *)
(* followed by one of ERROR and CANCELLED.                                 *)
StageLogShape ==
    \/ IsPrefix(stageLog, LinearStages)
    \/ /\ Len(stageLog) >= 1
       /\ stageLog[Len(stageLog)] \in {"ERROR", "CANCELLED"}
       /\ IsPrefix(SubSeq(stageLog, 1, Len(stageLog) - 1), LinearStages)

(* A step taken in a terminal stage sets no stage and emits no progress. *)
QuietAfterTerminal ==
    current_stage \in TerminalStages => (stageLog' = stageLog /\ sample' = sample)

(* C5: the stages set in one run are a prefix of VALIDATING .. COMPLETE,   *)
(* optionally followed by exactly one of ERROR and CANCELLED, and once a   *)
(* terminal stage is set there is no further stage change and no further   *)
(* progress notification.                                                  *)
C5_LinearStages ==
    /\ []StageLogShape
    /\ [][QuietAfterTerminal]_vars

C5_Witness ==
    /\ pc = "done"
    /\ stageLog = <<"VALIDATING", "EXTRACTING", "UPSCALING", "ERROR">>

(* C6: a job started with a scale outside {2, 3, 4} never launches the     *)
(* extraction process.                                                     *)
C6_InvalidScaleNoSpawn ==
    (job.entry = "run" /\ job.scale \notin VALID_SCALES)
        => "extract" \notin spawned

(* C7: every progress sample of a stage satisfies 0 <= current <= total.   *)
C7_ProgressWithinTotal ==
    sample.by \in StageEmitters
        => (0 <= sample.cur /\ sample.cur <= sample.total)

(* A step that emits the next sample of the same stage does not lower current. *)
NextSampleNotLower ==
    (/\ sample'.n # sample.n
     /\ sample.by \in StageEmitters
     /\ sample'.by = sample.by)
        => sample'.cur >= sample.cur

(* C8: within a stage, current never decreases from one progress sample    *)
(* to the next.                                                            *)
C8_CurrentNonDecreasing == [][NextSampleNotLower]_vars

C8_Witness ==
    /\ pc = "check_extracted"
    /\ sample.by = "extract"
    /\ sample.n >= 6
    /\ sample.cur = MaxFrames

(* C9: a job whose Validation step fails ends in ERROR, with no workspace  *)
(* created and no stage process created.                                   *)
C9_ValidationFailureClean ==
    (job.entry = "run" /\ pc = "done" /\ ValidationFailure(job) # NoExc)
        => (/\ current_stage = "ERROR"
            /\ ws = "none"
            /\ spawned \cap StageProcesses = {})

(* C10: when upscale() is called and the enhancement tool exits 0 leaving  *)
(* no frame file, the job ends in ERROR with the no-frames failure and the *)
(* workspace removed.                                                      *)
C10_NoOutputFramesIsNoFramesError ==
    (/\ job.entry = "run"
     /\ pc = "done"
     /\ job.enh_tool = "exit0_no_frames"
     /\ comp["up"]
     /\ rmtree # "failed")
        => (/\ current_stage = "ERROR"
            /\ exc = Raise("UpscalingError", "No frames were upscaled")
            /\ ws = "removed")

(* C11: when upscale() has been called on a folder of N >= 1 frame files    *)
(* with a tool that writes one output frame per input frame and exits 0,   *)
(* and nobody cancels, then at the end of the call upscale() has not       *)
(* failed and its last sample is (N, N).  inFrames is the number of files  *)
(* in the input-frames folder.                                             *)
C11_UpscaleReportsAllFrames ==
    (/\ job.entry = "run"
     /\ comp["up"]
     /\ current_stage = "UPSCALING"
     /\ pc # "up_begin"
     /\ job.enh_tool = "exit0_all_frames"
     /\ cancels = 0
     /\ inFrames >= 1)
        => (/\ exc.type # "UpscalingError"
            /\ sample.by = "upscale"
            /\ sample.cur = inFrames
            /\ sample.total = inFrames)

(* The checks extract() makes once its poll loop has seen the child exit. *)
ExtractDecision ==
    (pc = "ext_finish" /\ pc' # "ext_finish")
        => (/\ (pc' = "check_extracted") <=> (child.code = 0 /\ inFrames >= 1)
            /\ child.code # 0 =>
                   \E text \in StderrOutput(child) :
                       exc' = RaiseWith("FrameExtractionError",
                                        "FFmpeg extraction failed", text)
            /\ (child.code = 0 /\ inFrames = 0) =>
                   (/\ exc'.type = "FrameExtractionError"
                    /\ exc'.msg = "No frames were extracted"))

(* Extraction has returned only with a child that exited 0 and left a frame. *)
ExtractedMeansFrames ==
    pc = "check_extracted"
        => (child.st = "exited" /\ child.code = 0 /\ inFrames >= 1)

(* C12: once the extraction child has exited, extract() returns if and     *)
(* only if the exit code is 0 and at least one frame file exists; a        *)
(* non-zero exit raises the extraction failure with the captured stderr,   *)
(* whatever the frame count, and exit code 0 with no frame raises the      *)
(* no-frames error.                                                        *)
C12_ExtractionOutcome ==
    /\ []ExtractedMeansFrames
    /\ [][ExtractDecision]_vars

C12_Witness ==
    /\ pc = "except"
    /\ exc = RaiseWith("FrameExtractionError", "FFmpeg extraction failed",
                       "Invalid data found when processing input")
    /\ child.code # 0
    /\ inFrames = 0

(* The stage whose code emits the samples of each emitter, and its label. *)
EmitterStage(by) ==
    CASE by = "run" -> "VALIDATING"
      [] by = "extract" -> "EXTRACTING"
      [] by = "upscale" -> "UPSCALING"
      [] by = "assemble" -> "ASSEMBLING"

ExpectedLabel(by) ==
    CASE by = "run" -> "Validating"
      [] by = "extract" -> "Extracting"
      [] by = "upscale" -> "Upscaling"
      [] by = "assemble" -> "Assembling"

(* A step of run() that emits a progress sample emits it while the latest  *)
(* stage-changed notification is that of the emitting stage, under its     *)
(* label.                                                                  *)
EmittedInOwnStage ==
    (job.entry = "run" /\ sample'.n # sample.n)
        => (/\ stageLog' # <<>>
            /\ stageLog'[Len(stageLog')] = EmitterStage(sample'.by)
            /\ sample'.stage = ExpectedLabel(sample'.by))

(* C13: every progress notification of a stage, its completion sample      *)
(* included, is emitted before the stage-changed notification of the next  *)
(* stage (so before any notification of that stage), and carries the label *)
(* of the stage that produced it.                                          *)
C13_OrderedAcrossTransition == [][EmittedInOwnStage]_vars

C13_Witness ==
    /\ pc = "new_upscaler"
    /\ stageLog = <<"VALIDATING", "EXTRACTING", "UPSCALING">>
    /\ sample.by = "extract"
    /\ sample.stage = "Extracting"
    /\ sample.cur = sample.total
    /\ sample.cur = inFrames
    /\ sample.n >= 4

(* The arguments that follow each occurrence of flag in a command line. *)
RECURSIVE ArgsAfter(_, _)
ArgsAfter(cmd, flag) ==
    IF Len(cmd) < 2 THEN <<>>
    ELSE IF Head(cmd) = flag
    THEN <<cmd[2]>> \o ArgsAfter(Tail(Tail(cmd)), flag)
    ELSE ArgsAfter(Tail(cmd), flag)

(* C14: the command of the assembly process has, for a source without      *)
(* audio, exactly one input (the image sequence) and no -map argument;     *)
(* for a source with audio, the original file as second input, video       *)
(* mapped from input 0 and audio mapped optionally from input 1.           *)
C14_AudioInputs ==
    child.owner = "assemble"
        => IF job.has_audio
           THEN /\ ArgsAfter(child.cmd, "-i") = <<"frame_%08d.png", "original">>
                /\ ArgsAfter(child.cmd, "-map") = <<"0:v", "1:a?">>
           ELSE /\ ArgsAfter(child.cmd, "-i") = <<"frame_%08d.png">>
                /\ ArgsAfter(child.cmd, "-map") = <<>>

C14_Witness ==
    /\ child.owner = "assemble"
    /\ ~job.has_audio
    /\ ArgsAfter(child.cmd, "-i") = <<"frame_%08d.png">>
    /\ pc = "done"
    /\ exc = NoExc

(* The codec arguments of an assembly command: what lies between the       *)
(* inputs (and mappings) and the six common output arguments.              *)
CodecSegment(cmd, has_audio) ==
    SubSeq(cmd, IF has_audio THEN 12 ELSE 6, Len(cmd) - 6)

H264_AAC ==
    <<"-c:v", "libx264", "-crf", "18", "-preset", "slow", "-c:a", "aac",
      "-b:a", "192k">>

(* C15: the video and audio codecs of the assembly command follow the      *)
(* output suffix, compared in lower case: mp4/m4v/mov H.264 + AAC, mkv     *)
(* H.264 + audio copy, webm VP9 + Opus, avi H.264 + MP3, and any other     *)
(* suffix exactly the arguments of .mp4.                                   *)
C15_CodecBySuffix ==
    child.owner = "assemble"
        => LET e == job.out_ext
               v == ArgsAfter(child.cmd, "-c:v")
               a == ArgsAfter(child.cmd, "-c:a")
               seg == CodecSegment(child.cmd, job.has_audio)
           IN  CASE e \in {".mp4", ".m4v", ".mov"} -> seg = H264_AAC
                 [] e \in {".mkv", ".MKV"} -> v = <<"libx264">> /\ a = <<"copy">>
                 [] e = ".webm" -> v = <<"libvpx-vp9">> /\ a = <<"libopus">>
                 [] e = ".avi" -> v = <<"libx264">> /\ a = <<"mp3">>
                 [] OTHER -> seg = H264_AAC

C15_Witness ==
    /\ child.owner = "assemble"
    /\ job.out_ext = ".unknownext"
    /\ CodecSegment(child.cmd, job.has_audio) = H264_AAC
    /\ job.has_audio

(* C16: when upscale() has been called on a folder holding at least one    *)
(* frame file, then at the end of the call it has reported the number of   *)
(* files as its total.  inFrames is the number of files that               *)
(* glob("frame_*.png") matches, whatever their sequence numbers, so a      *)
(* folder with a gap is a folder with that many files.                     *)
C16_TotalIsFileCount ==
    (/\ job.entry = "run"
     /\ comp["up"]
     /\ current_stage = "UPSCALING"
     /\ pc # "up_begin"
     /\ inFrames >= 1)
        => (sample.by = "upscale" /\ sample.total = inFrames)

(* A boundary check reached with the flag set raises. *)
BoundaryCheckFires ==
    (pc \in {"check_validated", "check_extracted"} /\ cancelled /\ pc' # pc)
        => (pc' = "except" /\ observed' = "boundary")

(* After a boundary check has fired: no process is created and no          *)
(* workspace is created.                                                   *)
NothingAfterBoundary ==
    observed = "boundary"
        => (spawned' = spawned /\ (ws' = ws \/ ws' = "removed"))

(* What a job stopped at a boundary looks like. *)
StoppedAtBoundary ==
    observed = "boundary"
        => (/\ "EXTRACTING" \notin {stageLog[i] : i \in DOMAIN stageLog}
               => (ws = "none" /\ spawned \cap StageProcesses = {})
            /\ "upscale" \notin spawned
            /\ pc = "done"
               => (/\ current_stage = "CANCELLED"
                   /\ terminals = <<[signal |-> "processing_error",
                                     text |-> <<"Processing was cancelled">>]>>))

(* C17: a cancellation flag that is set when the check after Validation or *)
(* after a stage is reached stops the job there: no workspace is created   *)
(* after a cancelled Validation, no later process is spawned, and the job  *)
(* ends in CANCELLED with the notification 'Processing was cancelled'.     *)
C17_BoundaryCheckStops ==
    /\ []StoppedAtBoundary
    /\ [][BoundaryCheckFires /\ NothingAfterBoundary]_vars

C17_Witness ==
    /\ pc = "done"
    /\ observed = "boundary"
    /\ stageLog = <<"VALIDATING", "EXTRACTING", "CANCELLED">>
    /\ "extract" \in spawned
    /\ Len(terminals) = 1

(* The stage object that runs each stage, and the place in cancel() where  *)
(* it is told.                                                             *)
ObjectOfStage(stage) ==
    CASE stage = "EXTRACTING" -> "ext"
      [] stage = "UPSCALING" -> "up"
      [] stage = "ASSEMBLING" -> "asm"

CancelPc(s) ==
    CASE s = "ext" -> "cancel_ext"
      [] s = "up" -> "cancel_up"
      [] s = "asm" -> "cancel_asm"

(* When cancel() comes to the object of the stage that is current, the     *)
(* object's flag is set afterwards.                                        *)
PropagationReaches ==
    \A s \in StageObjects :
        (/\ job.entry = "run"
         /\ current_stage \in {"EXTRACTING", "UPSCALING", "ASSEMBLING"}
         /\ ObjectOfStage(current_stage) = s
         /\ cpc = CancelPc(s)
         /\ cpc' # cpc)
            => stg'[s].cancelled

(* The flag of the current stage's object, once set, is not cleared. *)
RequestNotErased ==
    \A s \in StageObjects :
        (/\ job.entry = "run"
         /\ current_stage \in {"EXTRACTING", "UPSCALING", "ASSEMBLING"}
         /\ ObjectOfStage(current_stage) = s
         /\ stg[s].cancelled)
            => stg'[s].cancelled

(* C18: a cancel() made while the current stage is EXTRACTING, UPSCALING   *)
(* or ASSEMBLING reaches that stage: when cancel() has passed the stage's  *)
(* object the object's flag is set, and the flag stays set, so the stage   *)
(* cannot complete with the request unobserved; also when cancel() comes   *)
(* before the object exists or before the stage call resets its flag.      *)
C18_CancelReachesStage == [][PropagationReaches /\ RequestNotErased]_vars

(* cancel() of a stage that holds the handle of a running child asks the   *)
(* child to terminate.                                                     *)
TerminateOnCancel ==
    \A s \in StageObjects :
        (/\ cpc = TerminatePc(s)
         /\ cpc' # cpc
         /\ stg[s].process
         /\ child.st = "running")
            => child'.term

(* The next iteration of a poll loop whose flag is set does no further     *)
(* work: it asks the child to terminate and raises while the child is      *)
(* still running.                                                          *)
PollObservesCancel ==
    \A s \in {"ext", "asm"} :
        (/\ pc = (IF s = "ext" THEN "ext_poll" ELSE "asm_poll")
         /\ stg[s].cancelled
         /\ child.st = "running")
            => (/\ loc' = loc
                /\ sample' = sample
                /\ pc' # pc =>
                       (/\ child'.term
                        /\ child'.st = "running"
                        /\ pc' \in {"except", "done"}
                        /\ MentionsCancelled(exc'.msg)))

(* C19: when cancel() is called on a stage that holds the handle of a      *)
(* running child, termination of the child is requested at once, at the    *)
(* latest by the next iteration of the poll loop, and that iteration       *)
(* raises without waiting for the child to exit.                           *)
C19_TerminationRequestedByNextPoll ==
    [][TerminateOnCancel /\ PollObservesCancel]_vars

C19_Witness ==
    /\ job.entry = "assemble"
    /\ pc = "done"
    /\ exc = Raise("VideoAssemblyError", "Assembly cancelled by user")
    /\ child.st = "running"
    /\ child.term

(* C20: when assemble() has failed after its process was spawned, no       *)
(* output file is left at the destination path.                            *)
C20_OutputRolledBack ==
    (pc = "done" /\ exc # NoExc /\ "assemble" \in spawned) => outFile = -1

(* C21: no failure is surfaced before removal of the workspace has been    *)
(* attempted: while a created workspace has not been through rmtree,       *)
(* neither the ERROR/CANCELLED stage-changed notification nor              *)
(* processing_error has been emitted.                                      *)
C21_CleanupBeforeSurfacing ==
    (job.entry = "run" /\ ws = "exists" /\ rmtree = "not_tried")
        => (/\ \A i \in DOMAIN stageLog : stageLog[i] \notin {"ERROR", "CANCELLED"}
            /\ terminals = <<>>)

(* The cleanup step of a handler leaves the failure being handled, the     *)
(* stage and the notifications as they are, and goes on to the emission.   *)
CleanupKeepsFailure ==
    pc = "except_cleanup"
        => (/\ exc' = exc
            /\ current_stage' = current_stage
            /\ terminals' = terminals
            /\ pc' # pc => pc' = "except_emit")

(* A finished job's terminal stage and its one notification are those of   *)
(* the failure that ended it.                                              *)
TerminalIsPrimaryFailure ==
    (job.entry = "run" /\ pc = "done")
        => (/\ current_stage = HandlerStage(exc)
            /\ terminals = <<[signal |-> "processing_error",
                              text |-> HandlerMessage(exc)]>>)

(* C22: a failed removal of the workspace is swallowed: the job reaches    *)
(* the terminal stage of its primary failure and emits the one             *)
(* notification of that failure, as with a successful removal.             *)
C22_CleanupFailureSwallowed ==
    /\ []TerminalIsPrimaryFailure
    /\ [][CleanupKeepsFailure]_vars

C22_Witness ==
    /\ job.entry = "run"
    /\ pc = "done"
    /\ rmtree = "failed"
    /\ ws = "exists"
    /\ exc.type = "FrameExtractionError"
    /\ terminals = <<[signal |-> "processing_error",
                      text |-> HandlerMessage(exc)]>>

(* C23: two processors that both have a workspace have different           *)
(* workspace directories.                                                  *)
C23_DistinctWorkspaces ==
    (temp_base.a # NoDir /\ temp_base.b # NoDir) => temp_base.a # temp_base.b

(* Where the worker is once extract() has returned normally. *)
AfterExtraction == {"check_extracted", "set_upscaling", "new_upscaler", "up_begin"}

PreviousChildExited ==
    (pc \in AfterExtraction /\ child.owner = "extract") => child.st = "exited"

SpawnsWhenNoneRuns ==
    (child'.owner # child.owner \/ spawned' # spawned) => child.st # "running"

(* C24: at most one stage child runs at a time: a stage call returns to    *)
(* the pipeline only when its child has exited, and a process is spawned   *)
(* only when no child is running.                                          *)
C24_OneStageChild == []PreviousChildExited /\ [][SpawnsWhenNoneRuns]_vars

C24_Witness ==
    /\ pc = "up_begin"
    /\ child.owner = "extract"
    /\ child.st = "exited"
    /\ spawned = {"ffprobe", "extract"}

(* C25: the text attached to a non-zero-exit failure of a stage is all the *)
(* child wrote to its diagnostic stream.                                   *)
C25_DiagnosticsComplete ==
    (/\ exc.msg \in {"FFmpeg extraction failed", "FFmpeg encoding failed"}
     /\ child.st = "exited")
        => exc.detail = child.diag

(* The worker is inside extract() or assemble(), between spawn and return. *)
InStageCall == pc \in {"ext_poll", "ext_finish", "asm_poll", "asm_finish"}

(* C26: once the child of a stage has exited, the stage call returns or    *)
(* raises, also when the stderr reader never reaches the end of the        *)
(* stream: the join before the exit code is looked at is bounded.          *)
C26_StageEndsAfterExit == (child.st = "exited" /\ InStageCall) ~> ~InStageCall

C26_Witness ==
    /\ pc = "except"
    /\ child.st = "exited"
    /\ ~child.eof
    /\ exc.msg = "FFmpeg extraction failed"
    /\ stg["ext"].process = FALSE

(* C27: a job whose configured model lacks one of its two asset files      *)
(* fails in Validation: it never creates a workspace and never spawns the  *)
(* extraction process.                                                     *)
C27_MissingAssetsStopValidation ==
    (job.entry = "run" /\ ~ModelsExist(job.model_name, job.missing_assets))
        => (ws = "none" /\ "extract" \notin spawned)

(* What upscale() requires before it starts the tool. *)
UpscalePreconditions ==
    ModelsExist(job.model_name, job.missing_assets) /\ inFrames >= 1

UpscaleFailsFast ==
    (pc = "up_begin" /\ pc' # pc /\ ~UpscalePreconditions)
        => (/\ pc' = "except"
            /\ exc'.type = "UpscalingError"
            /\ spawned' = spawned
            /\ child' = child
            /\ sample' = sample)

UpscaleSpawnedOnlyWhenReady == "upscale" \in spawned => UpscalePreconditions

(* C28: upscale() starts the enhancement tool only when both files of the  *)
(* job's model exist and there is at least one input frame; when one of    *)
(* the two fails it raises an UpscalingError, spawns nothing and reports   *)
(* no progress.                                                            *)
C28_UpscaleFailsFast == []UpscaleSpawnedOnlyWhenReady /\ [][UpscaleFailsFast]_vars

C28_Witness ==
    /\ pc = "except"
    /\ exc.type = "UpscalingError"
    /\ ~ModelsExist(job.model_name, job.missing_assets)
    /\ "upscale" \notin spawned
    /\ sample.by = "extract"

(* The failure the claim assigns to each failing tool. *)
ClassifiedAs(tool) ==
    CASE tool = "exit1_vulkan" -> "Vulkan GPU initialization failed"
      [] tool = "exit1_memory" -> "GPU ran out of memory"
      [] tool = "exit1_other" -> "Real-ESRGAN failed"

(* C29: when upscale() has been called with an enhancement tool that exits *)
(* non-zero and nobody cancels, the job fails with the failure of the      *)
(* tool's diagnostic: GPU initialisation for the instance-creation         *)
(* failure, else out of memory, else the generic failure.                  *)
C29_FailureClassified ==
    (/\ job.entry = "run"
     /\ pc = "done"
     /\ job.enh_tool \in FailingTools
     /\ comp["up"]
     /\ cancels = 0)
        => (/\ exc.type = "UpscalingError"
            /\ exc.msg = ClassifiedAs(job.enh_tool))

(* The worker is in the poll loop of assemble() or about to enter it. *)
InAssemblyLoop == job.entry = "assemble" /\ pc \in {"asm_spawn", "asm_poll"}

EstimateInRange ==
    InAssemblyLoop
        => (/\ loc.frames_processed >= 0
            /\ loc.frames_processed <= loc.total_frames - 1
            /\ sample.by = "assemble"
            /\ sample.cur = loc.frames_processed
            /\ sample.total = loc.total_frames)

EstimateStep ==
    (InAssemblyLoop /\ sample' # sample /\ pc' = "asm_poll")
        => (/\ outFile > loc.last_size
            /\ sample'.cur >= sample.cur
            /\ sample'.cur - sample.cur <= 10
            /\ sample'.cur <= sample'.total - 1)

TotalOnlyAtTheEnd ==
    (job.entry = "assemble" /\ sample' # sample /\ sample'.cur = sample'.total)
        => (/\ pc = "asm_finish"
            /\ pc' = "done"
            /\ child.st = "exited"
            /\ child.code = 0
            /\ outFile >= 1000)

NothingAfterTotal ==
    (job.entry = "assemble" /\ sample.by = "assemble" /\ sample.cur = sample.total)
        => sample' = sample

(* C30: in the poll loop of assemble() the progress counter stays within   *)
(* 0 .. total - 1 and grows by at most 10 per observed growth of the       *)
(* output file; total is reported once, after the child exited 0 and the   *)
(* output file exists with at least 1000 bytes.                            *)
C30_AssemblyCounterBounded ==
    /\ []EstimateInRange
    /\ [][EstimateStep]_vars
    /\ [][TotalOnlyAtTheEnd]_vars
    /\ [][NothingAfterTotal]_vars

C30_Witness ==
    /\ job.frames = ManyFrames
    /\ pc = "asm_poll"
    /\ child.st = "running"
    /\ loc.frames_processed = ManyFrames - 1
    /\ sample.cur = ManyFrames - 1

(* C31: after the assembly child exited 0, assemble() succeeds only when   *)
(* the output file exists and is larger than 1 KB; a missing file raises   *)
(* the not-created error and a file of at most 1 KB, 1000 to 1024 bytes    *)
(* included, raises the corrupted error.                                   *)
C31_OutputLargerThanMinimum ==
    (job.entry = "assemble" /\ pc = "done" /\ exc = NoExc /\ child.st = "exited")
        => outFile > 1024

(* The worker is inside extract(), after its first sample. *)
InExtractCall == pc \in {"ext_spawn", "ext_poll", "ext_finish"}

ProvisionalUntilCompletion ==
    (InExtractCall /\ job.frame_count = 0)
        => (sample.by = "extract" /\ sample.total = 1000)

FinalSampleIsFileCount ==
    (pc = "ext_finish" /\ pc' = "check_extracted")
        => (/\ sample'.by = "extract"
            /\ sample'.n = sample.n + 1
            /\ sample'.cur = inFrames
            /\ sample'.total = inFrames)

(* C32: when the probe reports 0 frames, every sample of extract() before  *)
(* completion has total 1000; on success the last sample is (n, n) with n  *)
(* the number of frame files present, whatever total was used before.      *)
C32_ProvisionalTotalSuperseded ==
    []ProvisionalUntilCompletion /\ [][FinalSampleIsFileCount]_vars

C32_Witness ==
    /\ job.frame_count = 0
    /\ pc = "check_extracted"
    /\ inFrames = 2
    /\ sample.by = "extract"
    /\ sample.cur = 2
    /\ sample.total = 2

(* In the poll loop of extract() the remembered count is the current value *)
(* of the last sample (0, from the sample before the loop, at first).      *)
LastCountIsLastEmitted ==
    pc = "ext_poll"
        => (sample.by = "extract" /\ sample.cur = loc.last_count)

(* An iteration that does anything but wait or leave the loop. *)
PollEmitsOnChange ==
    (pc = "ext_poll" /\ pc' = "ext_poll" /\ (sample' # sample \/ loc' # loc))
        => (/\ inFrames # loc.last_count
            /\ sample'.n = sample.n + 1
            /\ sample'.cur = inFrames
            /\ sample'.cur # sample.cur
            /\ loc'.last_count = inFrames)

(* C33: in the poll loop of extract() a sample is emitted exactly on the   *)
(* iterations that measure a file count different from the one of the      *)
(* previous emission (0 at first), so two consecutive samples of the loop  *)
(* never carry the same current value.                                     *)
C33_SampleOnlyOnChange == []LastCountIsLastEmitted /\ [][PollEmitsOnChange]_vars

C33_Witness ==
    /\ pc = "ext_poll"
    /\ child.st = "running"
    /\ loc.last_count = 2
    /\ sample.cur = 2
    /\ sample.n = 5
    /\ inFrames = 2

NoCompleteAfterCancel ==
    (job.entry = "run" /\ cancels >= 1)
        => \A i \in DOMAIN terminals : terminals[i].signal # "processing_complete"

(* The request of a cancel() made before the terminal notification stays   *)
(* recorded until that notification.                                       *)
JobRequestKept ==
    (job.entry = "run" /\ cancelled /\ terminals = <<>>) => cancelled'

(* C34: once cancel() has been called before the terminal notification,    *)
(* the job never emits processing_complete and the request is not          *)
(* discarded, also when it is made before run() executes its first         *)
(* statement.                                                              *)
C34_CancelNeverDiscarded == []NoCompleteAfterCancel /\ [][JobRequestKept]_vars

(* C35: after a cancellation observed inside a stage, no child process of  *)
(* the job is running once removal of the workspace has been attempted or  *)
(* the terminal notification has been emitted.                             *)
C35_ChildExitedBeforeRemoval ==
    (/\ job.entry = "run"
     /\ observed = "poll"
     /\ (rmtree # "not_tried" \/ terminals # <<>>))
        => child.st # "running"

(* Where the worker is inside the except clauses of run(). *)
HandlerPcs == {"except", "except_cleanup", "except_emit"}

(* upscale() has been called and the call is over. *)
UpscaleCallOver == comp["up"] /\ pc # "up_begin"

CancelReturns == cpc # "raised"

AtMostOneTerminal == Len(terminals) <= 1

(* Once the terminal notification is out, no step changes the stage or the *)
(* notifications.                                                          *)
TerminalStateKept ==
    terminals # <<>>
        => (/\ terminals' = terminals
            /\ current_stage' = current_stage
            /\ stageLog' = stageLog
            /\ exc' = exc)

(* C37: cancel() never raises to its caller, whatever run() is doing, also *)
(* when the stage clears its process handle between the test of the handle *)
(* and the call of terminate(), and when it is called again after the      *)
(* terminal notification; it never leads to a second terminal notification *)
(* and never changes a terminal state.                                     *)
C37_CancelSafe ==
    /\ [](CancelReturns /\ AtMostOneTerminal)
    /\ [][TerminalStateKept]_vars

C37_Witness ==
    /\ job.entry = "run"
    /\ cpc = "term_ext"
    /\ ~stg["ext"].process
    /\ pc = "done"
    /\ Len(terminals) = 1

WorkingStages == {"EXTRACTING", "UPSCALING", "ASSEMBLING"}

WorkspaceDuringStages ==
    (job.entry = "run" /\ current_stage \in WorkingStages)
        => (ws = "exists" /\ rmtree = "not_tried" /\ temp_base.a # NoDir)

RemovalOnlyAtTheEnd ==
    (job.entry = "run" /\ (ws' # ws \/ rmtree' # rmtree) /\ ws # "none")
        => current_stage \in {"CLEANUP", "ERROR", "CANCELLED"}

(* C38: while the current stage is EXTRACTING, UPSCALING or ASSEMBLING the  *)
(* workspace has been created and the orchestrator has not removed it or   *)
(* tried to; it removes the workspace only in CLEANUP or once ERROR or     *)
(* CANCELLED is set.                                                       *)
C38_WorkspaceDuringStages ==
    []WorkspaceDuringStages /\ [][RemovalOnlyAtTheEnd]_vars

C38_Witness ==
    /\ job.entry = "run"
    /\ current_stage = "UPSCALING"
    /\ pc = "up_begin"
    /\ ws = "exists"
    /\ inFrames >= 1

(* Where the worker is between the spawn of a stage's child and the end of *)
(* the stage call; upscale() has no such place.                            *)
CallPcs(s) ==
    CASE s = "ext" -> {"ext_poll", "ext_finish"}
      [] s = "up" -> {}
      [] s = "asm" -> {"asm_poll", "asm_finish"}

HandleOnlyInsideCall == \A s \in StageObjects : stg[s].process <=> pc \in CallPcs(s)

(* A step that ends a stage call leaves the handle of that stage None. *)
HandleResetOnExit ==
    \A s \in StageObjects :
        (pc \in CallPcs(s) /\ pc' \notin CallPcs(s)) => ~stg'[s].process

(* C39: the process handle of a stage object is set exactly from the spawn *)
(* of its child to the return or raise of its stage call; success,         *)
(* failure, cancellation and launch error all leave it None.               *)
C39_HandleOnlyInsideCall == []HandleOnlyInsideCall /\ [][HandleResetOnExit]_vars

C39_Witness ==
    /\ pc = "except"
    /\ exc.msg = "Extraction cancelled by user"
    /\ "extract" \in spawned
    /\ child.st = "running"
    /\ ~stg["ext"].process

====
